---- MODULE Spec2Model ----
(***************************************************************************)
(* Worker service of parent_agent: the worker supervisor (WorkerManager),  *)
(* the connection worker (WhatsAppWorker), inbound message ingestion and   *)
(* the outbound delivery queue (GreenAPISender + Scheduler).               *)
(*                                                                         *)
(* Time is in milliseconds, as in the source.  now = 0 is a Sunday 00:00   *)
(* UTC; Israel wall-clock time is now + IsraelOffset, the server's local   *)
(* wall-clock time is now + serverTz.                                      *)
(*                                                                         *)
(* The module holds one specification per subsystem over one set of        *)
(* variables; the variables of the other subsystems keep their initial     *)
(* value:                                                                  *)
(*   SpecSend                    requests for alerts and digests           *)
(*   SpecQueue / SpecQueueFair   the queue job (processQueue)              *)
(*   SpecConn / SpecConnFair     one connection worker and the health check*)
(*   SpecReconnect               the worker's reconnect routine            *)
(*   SpecSup / SpecSupFair       the supervisor's registry of workers      *)
(*   SpecScan / SpecScanFair     scan requests and their dispatch          *)
(*   SpecHealth                  a registered worker, the health check and *)
(*                               the shutdown of the supervisor            *)
(*   SpecHeartbeat               the worker with heartbeat updates in      *)
(*                               flight                                    *)
(*   SpecSched                   the scheduler's fan-out over users and    *)
(*                               the alert sender                          *)
(*   SpecRequeue / ...Fair       alerts with retries next to the queue job *)
(*   SpecIngest / SpecIngestFair ingestion and processing of group messages*)
(*                                                                         *)
(* A handler of a transport event or of a timer is one step.  The calls    *)
(* whose awaits let another call see or change the same rows or fields     *)
(* (processQueue, sendWithRetry, reconnect, startWorker, stopWorker,       *)
(* handleMessage, scanGroupHistory, processMessage, processScanRequest,    *)
(* processPendingAlerts) are split at those awaits.                        *)
(***************************************************************************)
EXTENDS Integers, Sequences, FiniteSets, TLC

(***************************************************************************)
(* Bounds of the model                                                     *)
(***************************************************************************)
MaxEntries == 2
MaxTicks == 2
MaxAlerts == 2
\* Worker objects the supervisor constructs for the user
MaxWorkers == 3
\* stopWorker calls waiting for the same worker to stop
MaxStopCalls == 2
\* Calls of reconnect() made after the worker gave up
MaxExtraCalls == 2
\* Calls of scanGroupHistory for the group
MaxScans == 2

(***************************************************************************)
(* Program constants                                                       *)
(***************************************************************************)
MAX_RETRIES == 3
RETRY_DELAY_MS == 5000
QUEUE_BATCH_LIMIT == 50
MAX_RECONNECT_ATTEMPTS == 5
RECONNECT_BASE_DELAY == 5000
IMMEDIATE_ALERT_THRESHOLD == 6
UNSTABLE_THRESHOLD == 2 * 60 * 1000
\* healthCheck: now - lastHeartbeat > 10 * 60 * 1000
HEALTH_RECONNECT_AFTER == 10 * 60 * 1000

MINUTE == 60 * 1000
HOUR == 60 * MINUTE
DAY == 24 * HOUR
WEEK == 7 * DAY

\* mark_stale_sessions: NOW() - INTERVAL '2 minutes'
STALE_INTERVAL == 2 * MINUTE

\* cron '*/5 * * * *' of the queue job
QUEUE_PERIOD == 5 * MINUTE

\* Asia/Jerusalem, standard time (UTC+2)
IsraelOffset == 2 * HOUR

\* The TZ of the server process: Asia/Jerusalem, or UTC (the container default)
ServerTimezones == {IsraelOffset, 0}

Users == {"u1", "u2"}

\* users.phone is set and users.wa_opt_in is true: u1 is opted in, u2 is not
CanReceive(u) == u = "u1"

EntryIds == 1 .. MaxEntries
PassIds == {"slow", "next"}

VARIABLES
    now,        \* Date.now()
    ticks,      \* number of free clock steps taken (bounds the clock)
    serverTz,   \* offset of the server's local time from UTC
    hbWrite, \* a heartbeat update of the session row is in flight
    quietTx, \* history: alerts handed to the transport inside their user's quiet hours
    apass, \* the processPendingAlerts() pass: position, its time snapshot, rows left
    atab, \* the alerts table: user_id and sent of each row
    fan, \* the running fan-out of a scheduler trigger over its users, and its history
    queue,      \* table message_queue: EntryIds -> row
    qmeta,      \* history: how and when each row was inserted
    notified,   \* history: rows for which createWebNotification was called
    sends,      \* history: transport calls made for each row (saturating)
    pass,       \* the running processQueue() calls
    phist,      \* history of each processQueue() call
    swr,        \* the running sendWithRetry() call
    shist,      \* history of the last sendWithRetry() call
    blackoutTx, \* history: sendMessage was called inside the blackout window
    lastReq,    \* history: what the last sendImmediateAlert / sendDailyDigest did
    \* connection worker
    userId,            \* the worker's user
    status,            \* this.status
    session,           \* the user's row of wa_sessions
    client,            \* the transport client of the worker
    heartbeatInterval, \* the heartbeat timer is set
    lastHeartbeat,     \* this.lastHeartbeat
    reconnectAttempts, \* this.reconnectAttempts
    isReconnecting,    \* this.isReconnecting
    rpc,               \* where the running reconnect() call is
    rhist,             \* history: consecutive failed reconnects, gave up
    checks,            \* history: parity of the health checks run, plus 2 when the
                       \* last one returned at its isRunning test
    \* supervisor
    workers,    \* this.workers, for the one user: the registered worker
    wstate,     \* state of each worker object: unborn, starting, live, stopped,
                \* failed, hung (its stop() awaits a destroy() that never settles)
    starting,   \* workers whose startWorker call awaits worker.start()
    stopping,   \* stopWorker calls that await worker.stop(), per worker
    created,    \* number of worker objects constructed
    isRunning,  \* this.isRunning
    stopAllOn,  \* the worker stopAll() waits for
    exited,     \* the process has exited
    sreq,       \* the row of scan_requests, and the history of its processing
    sproc,      \* where each running processScanRequest() call is
    \* ingestion
    rows,       \* table wa_raw_messages: rows per external message id
    handed,     \* history: processMessage calls per external message id
    task,       \* where each handler of each message is
    processed,  \* column processed of the row of each external message id
    items,      \* table extracted_items: rows per message
    alerts,     \* table alerts: rows written by createAlert, per message
    mhist,      \* history of the processMessage call of each message
    scan        \* the scanGroupHistory() call

timeVars == <<now, ticks, serverTz, fan, atab, apass, quietTx, hbWrite>>
queueVars == <<queue, qmeta, notified, sends>>
passVars == <<pass, phist>>
delivVars == <<queue, qmeta, notified, sends, pass, phist, swr, shist, blackoutTx,
              lastReq>>
connVars == <<userId, status, session, client, heartbeatInterval, lastHeartbeat,
              reconnectAttempts, isReconnecting, rpc, rhist, checks>>
supVars == <<workers, wstate, starting, stopping, created, isRunning, stopAllOn, exited,
             sreq, sproc>>
ingVars == <<rows, handed, task, processed, items, alerts, mhist, scan>>
workerVars == <<connVars, supVars, ingVars>>
vars == <<now, ticks, serverTz, hbWrite, quietTx, apass, atab, fan, queue, qmeta, notified, sends, pass, phist, swr, shist,
          blackoutTx, lastReq, userId, status, session, client, heartbeatInterval,
          lastHeartbeat, reconnectAttempts, isReconnecting, rpc, rhist, checks, workers,
          wstate, starting, stopping, created, isRunning, stopAllOn, exited, sreq, sproc, rows,
          handed, task, processed, items, alerts, mhist, scan>>

Min(a, b) == IF a <= b THEN a ELSE b

(***************************************************************************)
(* Hebrew calendar utilities                                               *)
(***************************************************************************)
\* new Date(date.toLocaleString('en-US', {timeZone: 'Asia/Jerusalem'})).getDay()
israelDay(t) == ((t + IsraelOffset) \div DAY) % 7

\* ... .getHours()
israelHour(t) == ((t + IsraelOffset) % DAY) \div HOUR

isShabbat(t) ==
    \/ israelDay(t) = 6 /\ israelHour(t) < 20
    \/ israelDay(t) = 5 /\ israelHour(t) >= 18

isHoliday(t) == FALSE

isShabbatOrHoliday(t) == isShabbat(t) \/ isHoliday(t)

\* The day and hour are read in Israel time; setDate and setHours act on the
\* server's local calendar fields.
getNextMotzaeiShabbat(t, tz) ==
    LET day == israelDay(t)
        d0 == (6 - day + 7) % 7
        daysUntilSaturday == IF d0 = 0 /\ israelHour(t) >= 20 THEN 7 ELSE d0
        local == t + tz
        localMidnight == local - (local % DAY)
    IN  (localMidnight + daysUntilSaturday * DAY + 20 * HOUR + 30 * MINUTE) - tz

(***************************************************************************)
(* Outbound transport: GreenAPISender.sendMessage                          *)
(***************************************************************************)
\* sendMessage returns a message id ("ok") or null ("fail")
SendOutcomes == {"ok", "fail"}

sendMessage ==
    blackoutTx' = (blackoutTx \/ isShabbatOrHoliday(now))

(***************************************************************************)
(* Table message_queue                                                     *)
(***************************************************************************)
NoRow == [status |-> "none", user |-> "u1", type |-> "alert", scheduledFor |-> 0,
          retryCount |-> 0, err |-> "null"]
NoMeta == [origin |-> "none", createdAt |-> 0, scheduledFor |-> 0]

FreeIds == {e \in EntryIds : queue[e].status = "none"}
NewId == CHOOSE e \in FreeIds : \A f \in FreeIds : e <= f

\* supabase.from('message_queue').insert(row)
InsertRow(row, origin, notify) ==
    /\ FreeIds # {}
    /\ queue' = [queue EXCEPT ![NewId] = row]
    /\ qmeta' = [qmeta EXCEPT ![NewId] =
                    [origin |-> origin, createdAt |-> now,
                     scheduledFor |-> row.scheduledFor]]
    /\ notified' = [notified EXCEPT ![NewId] = notify]
    /\ UNCHANGED sends

queueMessage(u, type, rowStatus, origin, notify) ==
    LET scheduledFor == IF isShabbatOrHoliday(now)
                        THEN getNextMotzaeiShabbat(now, serverTz)
                        ELSE now
    IN  InsertRow([status |-> rowStatus, user |-> u, type |-> type,
                   scheduledFor |-> scheduledFor, retryCount |-> 0, err |-> "null"],
                  origin, notify)

logMessageSent(u, type) ==
    InsertRow([status |-> "sent", user |-> u, type |-> type,
               scheduledFor |-> now, retryCount |-> 0, err |-> "null"],
              "journal", FALSE)

(***************************************************************************)
(* sendImmediateAlert, sendDailyDigest, sendWithRetry                      *)
(***************************************************************************)
SwrIdle == [pc |-> "idle", user |-> "u1", type |-> "alert", attempt |-> 0, wake |-> 0]

\* History of a call of sendWithRetry: the transport calls it made and how many
\* of them succeeded, the journal rows, queue rows and notifications it wrote,
\* the row it inserted, what it returned
NoSendHist == [tx |-> 0, ok |-> 0, journal |-> 0, queued |-> 0, alerts |-> 0,
               row |-> 0, ret |-> "none"]

\* sendWithRetry is entered: the first attempt is due at once
StartSendWithRetry(u, type) ==
    /\ swr' = [pc |-> "try", user |-> u, type |-> type, attempt |-> 1, wake |-> now]
    /\ shist' = NoSendHist

\* for (let attempt = 1; attempt <= MAX_RETRIES; attempt++): the loop goes on
\* after the given attempt
\* Mutation of LoopContinues: one more turn of the loop
LoopContinuesOnceMore(attempt) == attempt <= MAX_RETRIES
LoopContinues(attempt) == attempt + 1 <= MAX_RETRIES

\* What a request did: inside the blackout window or not, rows inserted,
\* whether sendWithRetry was entered
NoReq == [kind |-> "none", blackout |-> FALSE, content |-> FALSE, queued |-> 0,
          sending |-> FALSE]
Req(kind, content, queued, sending) ==
    [kind |-> kind, blackout |-> isShabbatOrHoliday(now), content |-> content,
     queued |-> queued, sending |-> sending]

\* The call of sendImmediateAlert, up to the first transport call
ImmediateAlert(u) ==
    IF isShabbatOrHoliday(now)
    THEN /\ queueMessage(u, "alert", "pending", "deferred", FALSE)
         /\ lastReq' = Req("alert", TRUE, 1, FALSE)
         /\ UNCHANGED <<swr, shist, blackoutTx>>
    ELSE /\ IF CanReceive(u)
            THEN StartSendWithRetry(u, "alert") /\ lastReq' = Req("alert", TRUE, 0, TRUE)
            ELSE UNCHANGED <<swr, shist>> /\ lastReq' = Req("alert", TRUE, 0, FALSE)
         /\ UNCHANGED <<queueVars, blackoutTx>>

sendImmediateAlert(u) ==
    /\ swr.pc = "idle"
    /\ ImmediateAlert(u)
    /\ UNCHANGED <<timeVars, passVars>>
    /\ UNCHANGED workerVars

\* hasContent: generateDigestContent(userId) returned a text
sendDailyDigest(u, hasContent) ==
    /\ swr.pc = "idle"
    /\ IF isShabbatOrHoliday(now)
       THEN /\ IF hasContent
               THEN /\ queueMessage(u, "digest", "pending", "deferred", FALSE)
                    /\ lastReq' = Req("digest", TRUE, 1, FALSE)
               ELSE /\ UNCHANGED queueVars
                    /\ lastReq' = Req("digest", FALSE, 0, FALSE)
            /\ UNCHANGED <<swr, shist, blackoutTx>>
       ELSE /\ IF CanReceive(u) /\ hasContent
               THEN StartSendWithRetry(u, "digest") /\ lastReq' = Req("digest", TRUE, 0, TRUE)
               ELSE UNCHANGED <<swr, shist>> /\ lastReq' = Req("digest", hasContent, 0, FALSE)
            /\ UNCHANGED <<queueVars, blackoutTx>>
    /\ UNCHANGED <<timeVars, passVars>>
    /\ UNCHANGED workerVars

\* One iteration of the loop of sendWithRetry: a transport call and what follows
sendWithRetry(outcome) ==
    /\ swr.pc = "try"
    /\ now >= swr.wake
    /\ sendMessage
    /\ IF outcome = "ok"
       THEN /\ logMessageSent(swr.user, swr.type)
            /\ swr' = SwrIdle
            /\ shist' = [shist EXCEPT !.tx = @ + 1, !.ok = @ + 1, !.journal = @ + 1,
                                      !.row = NewId, !.ret = "true"]
       ELSE IF LoopContinues(swr.attempt)
       THEN /\ swr' = [swr EXCEPT !.attempt = swr.attempt + 1,
                                  !.wake = now + RETRY_DELAY_MS * swr.attempt]
            /\ shist' = [shist EXCEPT !.tx = @ + 1]
            /\ UNCHANGED queueVars
       ELSE /\ queueMessage(swr.user, swr.type, "failed", "exhausted", TRUE)
            /\ swr' = SwrIdle
            /\ shist' = [shist EXCEPT !.tx = @ + 1, !.queued = @ + 1, !.alerts = @ + 1,
                                      !.row = NewId, !.ret = "false"]
    /\ UNCHANGED <<timeVars, passVars, lastReq>>
    /\ UNCHANGED workerVars

(***************************************************************************)
(* processQueue                                                            *)
(***************************************************************************)
PassIdle == [pc |-> "idle", batch |-> {}, snap |-> [e \in EntryIds |-> 0],
             cur |-> 0, sent |-> 0]
\* History of a call: the rows that were pending and due when it started, whether
\* it started inside the blackout window, the rows it selected, the transport
\* calls it made for each row, how many of them succeeded, what it returned
NoHist == [due |-> {}, blackout |-> FALSE, sel |-> {}, tx |-> [e \in EntryIds |-> 0],
           ok |-> 0, ret |-> -1]
DueRows == {e \in EntryIds : queue[e].status = "pending" /\ queue[e].scheduledFor <= now}

\* .eq('status', 'pending').lte('scheduled_for', now)
\* Mutation of Eligible: the scheduled time is ignored
EligibleAnyTime(e, t) == queue[e].status = "pending"
Eligible(e, t) == queue[e].status = "pending" /\ queue[e].scheduledFor <= t

\* .limit(50): all the eligible rows, or some 50 of them
SelectPending(t) ==
    LET all == {e \in EntryIds : Eligible(e, t)}
    IN  {b \in SUBSET all : Cardinality(b) = Min(Cardinality(all), QUEUE_BATCH_LIMIT)}

\* retryCount = (msg.retry_count || 0) + 1
\* Mutation of NextRetryCount: the retry count is never advanced
RetryCountKept(r) == r
NextRetryCount(r) == r + 1

\* if (retryCount >= MAX_RETRIES)
RetriesExhausted(r) == r >= MAX_RETRIES

\* nextRetry = new Date(Date.now() + RETRY_DELAY_MS * retryCount)
NextRetryTime(t, r) == t + RETRY_DELAY_MS * r

\* The loop is over: processQueue returns the number of messages sent
FinishIfEmpty(p, batch, sent, hist) ==
    IF batch = {}
    THEN /\ pass' = [pass EXCEPT ![p] = [PassIdle EXCEPT !.pc = "done"]]
         /\ phist' = [phist EXCEPT ![p] = [hist EXCEPT !.ret = sent]]
    ELSE /\ pass' = [pass EXCEPT ![p] =
                       [pc |-> "loop", batch |-> batch,
                        snap |-> [e \in EntryIds |->
                                   IF e \in batch THEN pass[p].snap[e] ELSE 0],
                        cur |-> 0, sent |-> sent]]
         /\ phist' = [phist EXCEPT ![p] = hist]

\* The queue job fires: the blackout check and the select of the pending rows
processQueueStart(p) ==
    /\ pass[p].pc \in {"idle", "done"}
    /\ IF isShabbatOrHoliday(now)
       THEN /\ pass' = [pass EXCEPT ![p] = [PassIdle EXCEPT !.pc = "done"]]
            /\ phist' = [phist EXCEPT ![p] = [NoHist EXCEPT !.ret = 0, !.blackout = TRUE,
                                                       !.due = DueRows]]
       ELSE \E pending \in SelectPending(now) :
              LET hist == [NoHist EXCEPT !.sel = pending, !.due = DueRows]
              IN  IF pending = {}
                  THEN /\ pass' = [pass EXCEPT ![p] = [PassIdle EXCEPT !.pc = "done"]]
                       /\ phist' = [phist EXCEPT ![p] = [hist EXCEPT !.ret = 0]]
                  ELSE /\ pass' = [pass EXCEPT ![p] =
                                     [pc |-> "loop", batch |-> pending,
                                      snap |-> [e \in EntryIds |->
                                                 IF e \in pending THEN queue[e].retryCount
                                                 ELSE 0],
                                      cur |-> 0, sent |-> 0]]
                       /\ phist' = [phist EXCEPT ![p] = hist]
    /\ UNCHANGED <<timeVars, queueVars, swr, shist, blackoutTx, lastReq>>
    /\ UNCHANGED workerVars

\* if (!user?.phone || !user.wa_opt_in)
\* Mutation of SkipsUser: the check of phone and opt-in is left out
SkipsNoUser(u) == FALSE
SkipsUser(u) == ~CanReceive(u)

\* Top of the loop body for row e: the user lookup, then either the update
\* to failed ('No phone or opted out') or the update to sending
processQueueNext(p, e) ==
    /\ pass[p].pc = "loop"
    /\ e \in pass[p].batch
    /\ IF SkipsUser(queue[e].user)
       THEN /\ queue' = [queue EXCEPT ![e].status = "failed", ![e].err = "optout"]
            /\ FinishIfEmpty(p, pass[p].batch \ {e}, pass[p].sent, phist[p])
       ELSE /\ queue' = [queue EXCEPT ![e].status = "sending"]
            /\ pass' = [pass EXCEPT ![p].pc = "send", ![p].cur = e]
            /\ UNCHANGED phist
    /\ UNCHANGED <<timeVars, qmeta, notified, sends, swr, shist, blackoutTx, lastReq>>
    /\ UNCHANGED workerVars

\* The transport call for the current row and the update that follows it
processQueueSend(p, outcome) ==
    /\ pass[p].pc = "send"
    /\ LET e == pass[p].cur
           retryCount == NextRetryCount(pass[p].snap[e])
           hist == [phist[p] EXCEPT !.tx[e] = Min(@ + 1, 2),
                                    !.ok = IF outcome = "ok" THEN @ + 1 ELSE @]
       IN  /\ sendMessage
           /\ sends' = [sends EXCEPT ![e] = Min(@ + 1, MAX_RETRIES + 1)]
           /\ IF outcome = "ok"
              THEN /\ queue' = [queue EXCEPT ![e].status = "sent"]
                   /\ UNCHANGED notified
                   /\ FinishIfEmpty(p, pass[p].batch \ {e}, pass[p].sent + 1, hist)
              ELSE /\ IF RetriesExhausted(retryCount)
                      THEN /\ queue' = [queue EXCEPT ![e].status = "failed",
                                                     ![e].retryCount = retryCount,
                                                     ![e].err = "maxretries"]
                           /\ notified' = [notified EXCEPT ![e] = TRUE]
                      ELSE /\ queue' = [queue EXCEPT
                                          ![e].status = "pending",
                                          ![e].retryCount = retryCount,
                                          ![e].scheduledFor = NextRetryTime(now, retryCount)]
                           /\ UNCHANGED notified
                   /\ FinishIfEmpty(p, pass[p].batch \ {e}, pass[p].sent, hist)
    /\ UNCHANGED <<timeVars, qmeta, swr, shist, lastReq>>
    /\ UNCHANGED workerVars

(***************************************************************************)
(* The clock                                                               *)
(***************************************************************************)
TickSteps == {RETRY_DELAY_MS, QUEUE_PERIOD}

\* Instants something is waiting for
DueTimes ==
    {queue[e].scheduledFor : e \in {f \in EntryIds : queue[f].status = "pending"}}
    \cup (IF swr.pc = "try" THEN {swr.wake} ELSE {})

\* End of the blackout window that holds t: Saturday 20:00 Israel time
WindowEnd(t) ==
    LET il == t + IsraelOffset
    IN  (il - (il % WEEK)) + 6 * DAY + 20 * HOUR - IsraelOffset

Tick(d) ==
    /\ ticks < MaxTicks
    /\ now' = now + d
    /\ ticks' = ticks + 1
    /\ UNCHANGED <<serverTz, hbWrite, quietTx, apass, atab, fan, delivVars>>
    /\ UNCHANGED workerVars

\* Time passes until the blackout window is over
TickToWindowEnd ==
    /\ isShabbatOrHoliday(now)
    /\ now' = WindowEnd(now)
    /\ UNCHANGED <<ticks, serverTz, hbWrite, quietTx, apass, atab, fan, delivVars>>
    /\ UNCHANGED workerVars

\* Outside the window, time passes until the next instant something waits for
TickToDue ==
    /\ ~isShabbatOrHoliday(now)
    /\ \E t \in DueTimes :
          /\ t > now
          /\ \A t2 \in DueTimes : t2 > now => t <= t2
          /\ now' = t
    /\ UNCHANGED <<ticks, serverTz, hbWrite, quietTx, apass, atab, fan, delivVars>>
    /\ UNCHANGED workerVars

\* The same step once the blackout window is over and the calendar no longer
\* matters, with the origin of time moved along: now keeps its value and the
\* instants still ahead (scheduled_for of the pending rows, the end of the
\* delay of sendWithRetry) come closer by the time that passed.  processQueue
\* only ever compares scheduled_for with now, so nothing it can see is changed
\* by moving the origin.
TimePasses ==
    /\ ~isShabbatOrHoliday(now)
    /\ \E t \in DueTimes :
          /\ t > now
          /\ \A t2 \in DueTimes : t2 > now => t <= t2
          /\ queue' = [e \in EntryIds |->
                         IF queue[e].status = "pending" /\ queue[e].scheduledFor > now
                         THEN [queue[e] EXCEPT !.scheduledFor = @ - (t - now)]
                         ELSE queue[e]]
          /\ swr' = IF swr.pc = "try" /\ swr.wake > now
                    THEN [swr EXCEPT !.wake = @ - (t - now)]
                    ELSE swr
    /\ UNCHANGED <<timeVars, qmeta, notified, sends, pass, phist, shist, blackoutTx,
                   lastReq>>
    /\ UNCHANGED workerVars

(***************************************************************************)
(* Scheduler: the triggers that fan out over users                         *)
(***************************************************************************)
NoBatch == [job |-> "idle", ran |-> "none", todo |-> {}, tried |-> {}, failed |-> {}, threw |-> {}]

\* Mutation of PerUserCaught: no try/catch inside the loop
PerUserNeverCaught(job) == FALSE
\* runDailyDigest wraps the handling of each user in try/catch;
\* processCalendarEvents has only the try/catch around the whole pass
PerUserCaught(job) == job = "digest"

\* runDailyDigest() / processCalendarEvents(), up to the loop: the candidate
\* users were read
SchedulerTrigger(job) ==
    /\ fan.job = "idle"
    /\ fan' = [job |-> job, ran |-> job, todo |-> Users, tried |-> {}, failed |-> {}, threw |-> {}]
    /\ UNCHANGED <<now, ticks, serverTz, atab, apass, quietTx, hbWrite, delivVars>>
    /\ UNCHANGED workerVars

\* One iteration of the loop.  sendDailyDigest returns true or false, or
\* raises; in the calendar pass the user is skipped (no phone, no opt-in, no
\* connection, a store error returned) or handled by processExtractedEvents,
\* whose awaits are store calls, which return their errors, and
\* sendApprovalRequest, which catches its own
HandleUser(u, outcome) ==
    /\ fan.job # "idle"
    /\ u \in fan.todo
    /\ outcome = "throw" => fan.job = "digest"
    /\ LET aborts == outcome = "throw" /\ ~PerUserCaught(fan.job)
           rest == IF aborts THEN {} ELSE fan.todo \ {u}
       IN  fan' = [fan EXCEPT !.job = IF rest = {} THEN "idle" ELSE @,
                              !.todo = rest,
                              !.tried = @ \cup {u},
                              !.failed = IF outcome = "ok" THEN @ ELSE @ \cup {u},
                              !.threw = IF outcome = "throw" THEN @ \cup {u} ELSE @]
    /\ UNCHANGED <<now, ticks, serverTz, atab, apass, quietTx, hbWrite, delivVars>>
    /\ UNCHANGED workerVars

(***************************************************************************)
(* Alert sender                                                            *)
(***************************************************************************)
NoAlert == [user |-> "none", sent |-> FALSE]

AlertPassIdle == [pc |-> "idle", snap |-> 0, todo |-> <<>>, sending |-> 0]

\* users.notification_settings; the quiet hours are "HH:MM" strings, kept
\* here as the pair that split(':').map(Number) makes of them.  The first
\* user's range wraps past midnight, the second user's does not
notification_settings(u) ==
    IF u = "u1"
      THEN [immediate_alerts_enabled |-> TRUE,
            quiet_hours_start |-> <<18, 0>>, quiet_hours_end |-> <<7, 0>>]
      ELSE [immediate_alerts_enabled |-> TRUE,
            quiet_hours_start |-> <<17, 0>>, quiet_hours_end |-> <<18, 0>>]

\* isWithinQuietHours(date, start, end): getHours() and getMinutes() are in
\* the server's local time
isWithinQuietHours(date, start, end) ==
    LET currentTime == ((date + serverTz) \div MINUTE) % (24 * 60)
        startTime == start[1] * 60 + start[2]
        endTime == end[1] * 60 + end[2]
    IN  IF startTime > endTime
          THEN currentTime >= startTime \/ currentTime < endTime
          ELSE currentTime >= startTime /\ currentTime < endTime

\* createAlert(userId, content): a row with sent = false; ids grow with
\* created_at
createAlert(u) ==
    /\ \E a \in 1..MaxAlerts :
          /\ atab[a] = NoAlert
          /\ \A b \in 1..MaxAlerts : b < a => atab[b] # NoAlert
          /\ atab' = [atab EXCEPT ![a] = [user |-> u, sent |-> FALSE]]
    /\ UNCHANGED <<now, ticks, serverTz, fan, apass, quietTx, hbWrite, delivVars>>
    /\ UNCHANGED workerVars

RECURSIVE UnsentFrom(_)
UnsentFrom(a) ==
    IF a > MaxAlerts THEN <<>>
    ELSE IF atab[a] # NoAlert /\ ~atab[a].sent THEN <<a>> \o UnsentFrom(a + 1)
    ELSE UnsentFrom(a + 1)

\* The rows the loop passes over without an await: inside quiet hours, judged
\* at the snapshot, a row is skipped
RECURSIVE SkipQuiet(_, _)
SkipQuiet(unsent, snap) ==
    IF unsent = <<>> THEN <<>>
    ELSE LET settings == notification_settings(atab[Head(unsent)].user)
         IN  IF /\ settings.immediate_alerts_enabled
                /\ isWithinQuietHours(snap, settings.quiet_hours_start,
                                      settings.quiet_hours_end)
               THEN SkipQuiet(Tail(unsent), snap)
               ELSE unsent

\* The loop of processPendingAlerts from the given rows on, up to its next
\* await: markAlertSent when the user's alerts are switched off, otherwise
\* greenAPIService.sendAlert
AlertLoop(snap, unsent) ==
    LET todo == SkipQuiet(unsent, snap)
    IN  IF todo = <<>>
          THEN /\ apass' = AlertPassIdle
               /\ UNCHANGED quietTx
        ELSE LET a == Head(todo)
                 u == atab[a].user
             IN  IF ~notification_settings(u).immediate_alerts_enabled
                   THEN /\ apass' = [pc |-> "marking", snap |-> snap,
                                     todo |-> Tail(todo), sending |-> a]
                        /\ UNCHANGED quietTx
                   ELSE /\ apass' = [pc |-> "sending", snap |-> snap,
                                     todo |-> Tail(todo), sending |-> a]
                        /\ quietTx' =
                              IF isWithinQuietHours(now,
                                    notification_settings(u).quiet_hours_start,
                                    notification_settings(u).quiet_hours_end)
                                THEN quietTx \cup {a} ELSE quietTx

\* processPendingAlerts(), up to its first await in the loop: the unsent rows
\* in created_at order, and const now = new Date(), taken once
processPendingAlerts ==
    /\ apass.pc = "idle"
    /\ UnsentFrom(1) # <<>>
    /\ AlertLoop(now, UnsentFrom(1))
    /\ UNCHANGED <<now, ticks, serverTz, fan, atab, hbWrite, delivVars>>
    /\ UNCHANGED workerVars

\* sendAlert settles, with markAlertSent when it returned true, or
\* markAlertSent settles; the loop goes on to its next await
AlertSendSettles(sent) ==
    /\ apass.pc # "idle"
    /\ atab' = IF sent \/ apass.pc = "marking"
                 THEN [atab EXCEPT ![apass.sending].sent = TRUE] ELSE atab
    /\ AlertLoop(apass.snap, apass.todo)
    /\ UNCHANGED <<now, ticks, serverTz, fan, hbWrite, delivVars>>
    /\ UNCHANGED workerVars

(***************************************************************************)
(* Connection worker (WhatsAppWorker) and the supervisor's health check    *)
(***************************************************************************)
\* A field that holds no time (null)
NULL == -1

\* Times older than this are indistinguishable to every comparison in the code
StaleCap == 11 * MINUTE

Max(a, b) == IF a >= b THEN a ELSE b

\* Mutation of stopHeartbeat: the timer is left running
stopHeartbeatLeavesTimer == UNCHANGED heartbeatInterval
\* stopHeartbeat(): clearInterval
stopHeartbeat == heartbeatInterval' = FALSE

\* Mutation of updateSession: 'connected' is written like any other status
updateSessionPlain(s, qrCode, errorMessage) ==
    /\ status' = s
    /\ session' = [status |-> s,
                   last_heartbeat |-> now,
                   qr_code |-> IF qrCode # "undefined" THEN qrCode ELSE session.qr_code,
                   error_message |-> IF errorMessage # "undefined" THEN errorMessage
                                     ELSE session.error_message]
    /\ UNCHANGED reconnectAttempts
\* updateSession(status, qrCode, errorMessage): the in-memory status, the
\* wa_sessions row, and the reset of the attempt counter on 'connected'.  An
\* argument left out is "undefined" and its column is not written; 'connected'
\* writes null to both columns
updateSession(s, qrCode, errorMessage) ==
    /\ status' = s
    /\ session' = [status |-> s,
                   last_heartbeat |-> now,
                   qr_code |-> IF s = "connected" THEN "null"
                               ELSE IF qrCode # "undefined" THEN qrCode
                               ELSE session.qr_code,
                   error_message |-> IF s = "connected" THEN "null"
                                     ELSE IF errorMessage # "undefined" THEN errorMessage
                                     ELSE session.error_message]
    /\ reconnectAttempts' = IF s = "connected" THEN 0 ELSE reconnectAttempts

\* notifyDisconnection(reason): a user with a phone and opt-in is sent the
\* notice through the outbound transport
notifyDisconnection ==
    IF CanReceive(userId) THEN sendMessage ELSE UNCHANGED blackoutTx

RecoIdle == [pc |-> "idle", wait |-> 0]
NoRecoHist == [fails |-> 0, gaveUp |-> FALSE]

\* client.on('qr')
OnQr ==
    /\ client \in {"initializing", "qr"}
    /\ client' = "qr"
    /\ updateSession("qr_required", "qr", "undefined")
    /\ UNCHANGED <<userId, heartbeatInterval, lastHeartbeat, isReconnecting, rpc, rhist, checks>>
    /\ UNCHANGED <<timeVars, delivVars, supVars, ingVars>>

\* client.on('ready')
OnReady ==
    /\ client \in {"initializing", "qr"}
    /\ client' = "ready"
    /\ updateSession("connected", "undefined", "undefined")
    /\ heartbeatInterval' = TRUE
    /\ rhist' = NoRecoHist
    /\ UNCHANGED <<userId, lastHeartbeat, isReconnecting, rpc, checks>>
    /\ UNCHANGED <<timeVars, delivVars, supVars, ingVars>>

\* client.on('auth_failure')
OnAuthFailure ==
    /\ client = "initializing"
    /\ client' = "failed"
    /\ updateSession("manual_reauth_required", "null", "error")
    /\ notifyDisconnection
    /\ UNCHANGED <<userId, heartbeatInterval, lastHeartbeat, isReconnecting, rpc, rhist, checks>>
    /\ UNCHANGED <<timeVars, queueVars, passVars, swr, shist, lastReq, supVars, ingVars>>

\* client.on('disconnected')
OnDisconnected ==
    /\ client = "ready"
    /\ client' = "closed"
    /\ stopHeartbeat
    /\ updateSession("disconnected", "null", "error")
    /\ notifyDisconnection
    /\ UNCHANGED <<userId, lastHeartbeat, isReconnecting, rpc, rhist, checks>>
    /\ UNCHANGED <<timeVars, queueVars, passVars, swr, shist, lastReq, supVars, ingVars>>

\* The interval callback of startHeartbeat(); the write to wa_sessions may fail
HeartbeatTick(dbOk) ==
    /\ heartbeatInterval
    /\ lastHeartbeat' = now
    /\ session' = IF dbOk THEN [session EXCEPT !.status = "connected",
                                                !.last_heartbeat = now]
                          ELSE session
    /\ UNCHANGED <<userId, status, client, heartbeatInterval, reconnectAttempts,
                   isReconnecting, rpc, rhist, checks>>
    /\ UNCHANGED <<timeVars, delivVars, supVars, ingVars>>

\* The interval callback of startHeartbeat(), up to its await: the update of
\* the row, with the literal status 'connected', is sent
HeartbeatIssue ==
    /\ heartbeatInterval
    /\ ~hbWrite
    /\ lastHeartbeat' = now
    /\ hbWrite' = TRUE
    /\ UNCHANGED <<userId, status, session, client, heartbeatInterval, reconnectAttempts,
                   isReconnecting, rpc, rhist, checks>>
    /\ UNCHANGED <<now, ticks, serverTz, fan, atab, apass, quietTx, delivVars, supVars, ingVars>>

\* The update sent by the interval callback reaches the store, or fails
HeartbeatWriteSettles(dbOk) ==
    /\ hbWrite
    /\ hbWrite' = FALSE
    /\ session' = IF dbOk THEN [session EXCEPT !.status = "connected",
                                                !.last_heartbeat = now]
                          ELSE session
    /\ UNCHANGED <<userId, status, client, heartbeatInterval, lastHeartbeat,
                   reconnectAttempts, isReconnecting, rpc, rhist, checks>>
    /\ UNCHANGED <<now, ticks, serverTz, fan, atab, apass, quietTx, delivVars, supVars, ingVars>>

\* SQL function mark_stale_sessions()
mark_stale_sessions ==
    /\ session.status = "connected"
    /\ session.last_heartbeat < now - STALE_INTERVAL
    /\ session' = [session EXCEPT !.status = "unstable"]
    /\ UNCHANGED <<userId, status, client, heartbeatInterval, lastHeartbeat,
                   reconnectAttempts, isReconnecting, rpc, rhist, checks>>
    /\ UNCHANGED <<timeVars, delivVars, supVars, ingVars>>

\* if (this.reconnectAttempts > MAX_RECONNECT_ATTEMPTS)
ReconnectGivesUp(attempts) == attempts > MAX_RECONNECT_ATTEMPTS

RECURSIVE Pow2(_)
Pow2(n) == IF n = 0 THEN 1 ELSE 2 * Pow2(n - 1)

\* Mutation of ReconnectDelay: the delay grows by the base delay per attempt
ReconnectDelayLinear(attempts) == RECONNECT_BASE_DELAY * attempts
\* RECONNECT_BASE_DELAY * Math.pow(2, this.reconnectAttempts - 1)
ReconnectDelay(attempts) == RECONNECT_BASE_DELAY * Pow2(attempts - 1)

\* Mutation of reconnect: no check of isReconnecting
reconnectUnguarded ==
    /\ isReconnecting' = TRUE
    /\ reconnectAttempts' = reconnectAttempts + 1
    /\ rpc' = IF ReconnectGivesUp(reconnectAttempts + 1)
                 THEN [pc |-> "giveup", wait |-> 0]
                 ELSE [pc |-> "delay",
                       wait |-> ReconnectDelay(reconnectAttempts + 1)]

\* reconnect(), up to its first await
reconnect ==
    IF isReconnecting
       THEN UNCHANGED <<isReconnecting, reconnectAttempts, rpc>>
       ELSE /\ isReconnecting' = TRUE
            /\ reconnectAttempts' = reconnectAttempts + 1
            /\ rpc' = IF ReconnectGivesUp(reconnectAttempts + 1)
                         THEN [pc |-> "giveup", wait |-> 0]
                         ELSE [pc |-> "delay",
                               wait |-> ReconnectDelay(reconnectAttempts + 1)]

\* reconnect(), the branch taken above MAX_RECONNECT_ATTEMPTS
ReconnectGiveUp ==
    /\ rpc.pc = "giveup"
    /\ updateSession("manual_reauth_required", "null", "error")
    /\ notifyDisconnection
    /\ isReconnecting' = FALSE
    /\ rpc' = RecoIdle
    /\ rhist' = [rhist EXCEPT !.gaveUp = TRUE]
    /\ UNCHANGED <<userId, client, heartbeatInterval, lastHeartbeat, checks>>
    /\ UNCHANGED <<timeVars, queueVars, passVars, swr, shist, lastReq, supVars, ingVars>>

\* reconnect(), after the backoff delay: stop()
ReconnectStop ==
    /\ rpc.pc = "delay"
    /\ rpc.wait = 0
    /\ stopHeartbeat
    /\ client' = "none"
    /\ updateSession("disconnected", "undefined", "undefined")
    /\ rpc' = [rpc EXCEPT !.pc = "start"]
    /\ UNCHANGED <<userId, lastHeartbeat, isReconnecting, rhist, checks>>
    /\ UNCHANGED <<timeVars, delivVars, supVars, ingVars>>

\* reconnect(): start() resolves or rejects; finally isReconnecting = false
ReconnectStart(outcome) ==
    /\ rpc.pc = "start"
    /\ IF outcome = "ok"
          THEN /\ client' = "initializing"
               /\ reconnectAttempts' = 0
               /\ rhist' = [rhist EXCEPT !.fails = 0]
          ELSE /\ client' = "failed"
               /\ UNCHANGED reconnectAttempts
               /\ rhist' = [rhist EXCEPT !.fails = @ + 1]
    /\ isReconnecting' = FALSE
    /\ rpc' = RecoIdle
    /\ UNCHANGED <<userId, status, session, heartbeatInterval, lastHeartbeat, checks>>
    /\ UNCHANGED <<timeVars, delivVars, supVars, ingVars>>

\* A caller invokes the public reconnect()
CallReconnect ==
    /\ reconnectAttempts < MAX_RECONNECT_ATTEMPTS + MaxExtraCalls
    /\ reconnect
    /\ UNCHANGED <<userId, status, session, client, heartbeatInterval, lastHeartbeat,
                   rhist, checks>>
    /\ UNCHANGED <<timeVars, delivVars, supVars, ingVars>>

\* WorkerManager.healthCheck(), for the one registered worker
\* Mutation of healthCheck: the reported status is not looked at
healthCheckAnyStatus ==
    /\ IF /\ isRunning
          /\ lastHeartbeat # NULL
          /\ now - lastHeartbeat > HEALTH_RECONNECT_AFTER
          THEN reconnect
          ELSE UNCHANGED <<isReconnecting, reconnectAttempts, rpc>>
    /\ checks' = IF isRunning THEN 1 - (checks % 2) ELSE 3 - (checks % 2)
    /\ UNCHANGED <<userId, status, session, client, heartbeatInterval, lastHeartbeat,
                   rhist>>
    /\ UNCHANGED <<timeVars, delivVars, supVars, ingVars>>

healthCheck ==
    /\ IF /\ isRunning
          /\ status = "unstable"
          /\ lastHeartbeat # NULL
          /\ now - lastHeartbeat > HEALTH_RECONNECT_AFTER
          THEN reconnect
          ELSE UNCHANGED <<isReconnecting, reconnectAttempts, rpc>>
    /\ checks' = IF isRunning THEN 1 - (checks % 2) ELSE 3 - (checks % 2)
    /\ UNCHANGED <<userId, status, session, client, heartbeatInterval, lastHeartbeat,
                   rhist>>
    /\ UNCHANGED <<timeVars, delivVars, supVars, ingVars>>

\* A minute passes.  The origin of time is moved instead of the clock, so the
\* stored times move back by a minute
Earlier(t) == IF t = NULL THEN NULL ELSE Max(t - MINUTE, now - StaleCap)

MinutePasses ==
    /\ lastHeartbeat' = Earlier(lastHeartbeat)
    /\ session' = [session EXCEPT !.last_heartbeat = Earlier(@)]
    /\ rpc' = [rpc EXCEPT !.wait = Max(@ - MINUTE, 0)]
    /\ UNCHANGED <<userId, status, client, heartbeatInterval, reconnectAttempts,
                   isReconnecting, rhist, checks>>
    /\ UNCHANGED <<timeVars, delivVars, supVars, ingVars>>

(***************************************************************************)
(* Worker supervisor (WorkerManager), for one user id                      *)
(***************************************************************************)
WorkerIds == 1 .. MaxWorkers

\* The callers of processScanRequest: the handler of the INSERT notification
\* of scan_requests, and two ticks of the 5-second poll
ScanCallers == {"insert", "poll1", "poll2"}
NoWorker == 0

\* The process has run shutdown() to its process.exit
Running == ~exited

\* startWorker(userId), up to its await of worker.start()
startWorker ==
    /\ workers = NoWorker
    /\ created < MaxWorkers
    /\ created' = created + 1
    /\ workers' = created + 1
    /\ wstate' = [wstate EXCEPT ![created + 1] = "starting"]
    /\ starting' = starting \cup {created + 1}

\* Change notification of wa_sessions: a row with status qr_required and no
\* worker in the registry
OnSessionQrRequired ==
    /\ Running
    /\ startWorker
    /\ UNCHANGED <<stopping, isRunning, stopAllOn, exited>>
    /\ UNCHANGED <<timeVars, delivVars, connVars, ingVars, sreq, sproc>>

\* POST request_qr of the dashboard: the user's row of wa_sessions is set to
\* qr_required; the change notification starts a worker when the registry has
\* none for the user (new WhatsAppWorker, start()), and does nothing otherwise
RequestQr ==
    /\ Running
    /\ session.status # "qr_required"
    /\ session' = [session EXCEPT !.status = "qr_required"]
    /\ IF workers = NoWorker /\ created < MaxWorkers
          THEN /\ startWorker
               /\ status' = "disconnected"
               /\ client' = "initializing"
               /\ heartbeatInterval' = FALSE
               /\ lastHeartbeat' = NULL
               /\ reconnectAttempts' = 0
               /\ isReconnecting' = FALSE
               /\ rpc' = RecoIdle
          ELSE UNCHANGED <<workers, wstate, starting, created, status, client,
                           heartbeatInterval, lastHeartbeat, reconnectAttempts,
                           isReconnecting, rpc>>
    /\ UNCHANGED <<userId, rhist, checks, stopping, isRunning, stopAllOn, exited, sreq,
                   sproc>>
    /\ UNCHANGED <<timeVars, delivVars, ingVars>>

\* startWorker(userId): worker.start() resolves
StartResolves(w) ==
    /\ Running
    /\ w \in starting
    /\ starting' = starting \ {w}
    /\ wstate' = [wstate EXCEPT ![w] = IF @ = "starting" THEN "live" ELSE @]
    /\ UNCHANGED <<workers, created, stopping, isRunning, stopAllOn, exited>>
    /\ UNCHANGED <<timeVars, delivVars, connVars, ingVars, sreq, sproc>>

\* Mutation of RegistryAfterDelete: the entry is left in the registry
RegistryKept(w) == workers
\* this.workers.delete(userId)
RegistryAfterDelete(w) == NoWorker

\* startWorker(userId): worker.start() rejects; catch: workers.delete(userId)
StartRejects(w) ==
    /\ Running
    /\ w \in starting
    /\ starting' = starting \ {w}
    /\ wstate' = [wstate EXCEPT ![w] = IF @ = "starting" THEN "failed" ELSE @]
    /\ workers' = RegistryAfterDelete(w)
    /\ UNCHANGED <<created, stopping, isRunning, stopAllOn, exited>>
    /\ UNCHANGED <<timeVars, delivVars, connVars, ingVars, sreq, sproc>>

\* Change notification of wa_sessions, DELETE: stopWorker(userId), up to its
\* await of worker.stop()
OnSessionDeleted ==
    /\ Running
    /\ workers # NoWorker
    /\ stopping[workers] < MaxStopCalls
    /\ stopping' = [stopping EXCEPT ![workers] = @ + 1]
    /\ UNCHANGED <<workers, wstate, starting, created, isRunning, stopAllOn, exited>>
    /\ UNCHANGED <<timeVars, delivVars, connVars, ingVars, sreq, sproc>>

\* worker.stop(): the client is destroyed
Stopped(w) == [wstate EXCEPT ![w] = IF @ \in {"starting", "live"} THEN "stopped" ELSE @]

\* stopWorker(userId): worker.stop() returns; workers.delete(userId)
StopWorkerEnd(w) ==
    /\ Running
    /\ stopping[w] > 0
    /\ stopping' = [stopping EXCEPT ![w] = @ - 1]
    /\ wstate' = Stopped(w)
    /\ workers' = RegistryAfterDelete(w)
    /\ UNCHANGED <<starting, created, isRunning, stopAllOn, exited>>
    /\ UNCHANGED <<timeVars, delivVars, connVars, ingVars, sreq, sproc>>

\* stopAll(), up to its await of the stopWorker calls.  The stop() it calls
\* awaits client.destroy(), which settles (resolved or rejected) or never does
stopAll ==
    /\ Running
    /\ isRunning
    /\ isRunning' = FALSE
    /\ IF workers = NoWorker
          THEN exited' = TRUE /\ UNCHANGED <<stopAllOn, wstate>>
          ELSE /\ stopAllOn' = workers
               /\ UNCHANGED exited
               /\ \E settles \in BOOLEAN :
                     wstate' = IF settles THEN wstate
                                          ELSE [wstate EXCEPT ![workers] = "hung"]
    /\ UNCHANGED <<workers, starting, created, stopping>>
    /\ UNCHANGED <<timeVars, delivVars, connVars, ingVars, sreq, sproc>>

\* stopAll(): its stopWorker call returns, worker.stop() having stopped the
\* heartbeat, dropped the transport and written 'disconnected'; shutdown()
\* exits the process
StopAllEnd ==
    /\ Running
    /\ stopAllOn # NoWorker
    /\ wstate[stopAllOn] # "hung"
    /\ wstate' = Stopped(stopAllOn)
    /\ workers' = RegistryAfterDelete(stopAllOn)
    /\ stopAllOn' = NoWorker
    /\ exited' = TRUE
    /\ stopHeartbeat
    /\ client' = "none"
    /\ updateSession("disconnected", "undefined", "undefined")
    /\ UNCHANGED <<userId, lastHeartbeat, isReconnecting, rpc, rhist, checks>>
    /\ UNCHANGED <<starting, created, stopping, isRunning>>
    /\ UNCHANGED <<timeVars, delivVars, ingVars, sreq, sproc>>

\* A row of scan_requests is inserted with status pending; the INSERT
\* notification, when it is delivered, calls processScanRequest()
OnScanRequestInsert(delivered) ==
    /\ Running
    /\ sreq.status = "none"
    /\ sreq' = [sreq EXCEPT !.status = "pending"]
    /\ sproc' = IF delivered THEN [sproc EXCEPT !["insert"] = "group"] ELSE sproc
    /\ UNCHANGED <<workers, wstate, starting, stopping, created, isRunning, stopAllOn,
                   exited>>
    /\ UNCHANGED <<timeVars, delivVars, connVars, ingVars>>

\* startScanPolling(): a tick of the interval selects the rows with status
\* pending and calls processScanRequest() for the row it found
ScanPollTick(c) ==
    /\ Running
    /\ isRunning
    /\ c # "insert"
    /\ sproc[c] = "idle"
    /\ sreq.status = "pending"
    /\ sproc' = [sproc EXCEPT ![c] = "group"]
    /\ UNCHANGED <<workers, wstate, starting, stopping, created, isRunning, stopAllOn,
                   exited, sreq>>
    /\ UNCHANGED <<timeVars, delivVars, connVars, ingVars>>

\* Mutation of WorkerConnected: the worker is not looked at
WorkerAssumedConnected == TRUE
\* The negation of: !worker || worker.getStatus() !== 'connected'
WorkerConnected == workers # NoWorker /\ status = "connected"

\* processScanRequest(requestId, groupId), from one await to the next: the
\* group row was read (or not found); the update to processing returned and
\* the worker is looked up; scanGroupHistory returned
processScanRequest(c) ==
    /\ Running
    /\ \/ /\ sproc[c] = "group"
          /\ \E found \in BOOLEAN :
                IF found
                   THEN /\ sreq' = [sreq EXCEPT !.status = "processing",
                                                !.processing = @ + 1]
                        /\ sproc' = [sproc EXCEPT ![c] = "lookup"]
                   ELSE /\ sreq' = [sreq EXCEPT !.status = "failed",
                                                !.error = "Group not found",
                                                !.terminal = @ + 1]
                        /\ sproc' = [sproc EXCEPT ![c] = "idle"]
       \/ /\ sproc[c] = "lookup"
          /\ IF WorkerConnected
                THEN /\ sreq' = [sreq EXCEPT !.scans = @ + 1]
                     /\ sproc' = [sproc EXCEPT ![c] = "scan"]
                ELSE /\ sreq' = [sreq EXCEPT !.status = "failed",
                                             !.error = "WhatsApp not connected",
                                             !.terminal = @ + 1]
                     /\ sproc' = [sproc EXCEPT ![c] = "idle"]
       \/ /\ sproc[c] = "scan"
          /\ sreq' = [sreq EXCEPT !.status = "completed", !.terminal = @ + 1]
          /\ sproc' = [sproc EXCEPT ![c] = "idle"]
    /\ UNCHANGED <<workers, wstate, starting, stopping, created, isRunning, stopAllOn,
                   exited>>
    /\ UNCHANGED <<timeVars, delivVars, connVars, ingVars>>

LiveWorkers == {w \in WorkerIds : wstate[w] = "live"}

(***************************************************************************)
(* Inbound message ingestion and processing, for one group                 *)
(***************************************************************************)
\* m1 is a message of another member of the group, own is a message the
\* worker's own account sent to the group
Messages == {"m1", "own"}
fromMe(m) == m = "own"

Group == "group@g.us"

\* message.from: the chat a received message came from; for a message sent by
\* the account itself, the account's own id
From(m) == IF fromMe(m) THEN "self@c.us" ELSE Group

\* message.from.includes('@g.us')
\* Mutation of IsGroupChat: the handlers do not look at message.from
IsAnyChat(from) == TRUE
IsGroupChat(from) == from = Group

LiveEvents == {"message", "message_create"}
Sources == LiveEvents \cup {"scan"}

\* Mutation of UniqueViolation: the table has no unique constraint
NoUniqueConstraint(m) == FALSE
\* CONSTRAINT wa_raw_messages_group_wa_message_unique UNIQUE (group_id, wa_message_id)
UniqueViolation(m) == rows[m] > 0

\* client.on('message') / client.on('message_create'): the check of
\* message.from, then handleMessage(message) up to the insert.  The transport
\* emits 'message' for received messages only, 'message_create' for every
\* message, the account's own included.
handleMessage(s, m) ==
    /\ task[s][m] = "idle"
    /\ s = "message" => ~fromMe(m)
    /\ task' = [task EXCEPT ![s][m] = IF IsGroupChat(From(m)) THEN "insert" ELSE "ignored"]
    /\ UNCHANGED <<rows, handed, processed, items, alerts, mhist, scan>>
    /\ UNCHANGED <<timeVars, delivVars, connVars, supVars>>

NoScan == [pc |-> "idle", run |-> 0, known |-> {}, processedCount |-> 0, ret |-> -1]

\* scanGroupHistory() is called: the chat's messages are fetched
scanGroupHistoryStart ==
    /\ scan.pc = "idle"
    /\ scan.run < MaxScans
    /\ scan' = [pc |-> "loop", run |-> scan.run + 1,
                known |-> {m \in Messages : rows[m] > 0}, processedCount |-> 0,
                ret |-> -1]
    /\ task' = [task EXCEPT !["scan"] = [m \in Messages |-> "idle"]]
    /\ UNCHANGED <<rows, handed, processed, items, alerts, mhist>>
    /\ UNCHANGED <<timeVars, delivVars, connVars, supVars>>

\* scanGroupHistory(): the messages are handled one after another; the skip of
\* the account's own messages and the lookup of an existing row
ScanBusy == \E m \in Messages : task["scan"][m] \in {"insert", "process", "mark"}

scanGroupHistory(m) ==
    /\ scan.pc = "loop"
    /\ task["scan"][m] = "idle"
    /\ ~ScanBusy
    /\ task' = [task EXCEPT !["scan"][m] =
                   IF fromMe(m) THEN "skippedFromMe"
                   ELSE IF rows[m] > 0 THEN "skipped" ELSE "insert"]
    /\ UNCHANGED <<rows, handed, processed, items, alerts, mhist, scan>>
    /\ UNCHANGED <<timeVars, delivVars, connVars, supVars>>

\* The loop is over: return processedCount
scanGroupHistoryReturn ==
    /\ scan.pc = "loop"
    /\ \A m \in Messages : task["scan"][m] \notin {"idle", "insert", "process", "mark"}
    /\ scan' = [scan EXCEPT !.pc = "idle", !.ret = scan.processedCount]
    /\ UNCHANGED <<rows, handed, task, processed, items, alerts, mhist>>
    /\ UNCHANGED <<timeVars, delivVars, connVars, supVars>>

\* .from('wa_raw_messages').insert(...).select().single()
InsertRawMessage(s, m) ==
    /\ task[s][m] = "insert"
    /\ IF UniqueViolation(m)
          THEN /\ task' = [task EXCEPT ![s][m] = "rejected"]
               /\ UNCHANGED rows
          ELSE /\ task' = [task EXCEPT ![s][m] = "process"]
               /\ rows' = [rows EXCEPT ![m] = @ + 1]
    /\ UNCHANGED <<handed, processed, items, alerts, mhist, scan>>
    /\ UNCHANGED <<timeVars, delivVars, connVars, supVars>>

(***************************************************************************)
(* MessageProcessor.processMessage                                         *)
(***************************************************************************)
\* What classifyMessage returns
Verdicts == [kind : {"verdict"}, category : {"noise", "event"}, urgency : {2, 5, 6},
             send_immediate_alert : BOOLEAN]

\* No verdict: the message was not classified (kind "none"), is shorter than 5
\* characters (kind "short"), or the classifier call threw (kind "error")
NoVerdict(kind) ==
    [kind |-> kind, category |-> "noise", urgency |-> 0, send_immediate_alert |-> FALSE]

Classifications == {NoVerdict("short"), NoVerdict("error")} \cup Verdicts

\* classification.category === 'noise' && classification.urgency < 3
IsNoise(v) == v.category = "noise" /\ v.urgency < 3

\* classification.send_immediate_alert && classification.urgency >= IMMEDIATE_ALERT_THRESHOLD
NeedsAlert(v) == v.send_immediate_alert /\ v.urgency >= IMMEDIATE_ALERT_THRESHOLD

\* catch (error): "Don't mark as processed so it can be retried"
\* Mutation of MarkedInCatch: the catch block marks the message processed
MarkedInCatchToo == TRUE
MarkedInCatch == FALSE

\* History of the processMessage call of a message: how it was classified,
\* whether the extracted item was stored, what the call of sendImmediateAlert
\* did, and the transport calls made for it before processMessage went on
NoProc == [cls |-> NoVerdict("none"), saved |-> FALSE, req |-> NoReq, tx |-> 0]

\* A processMessage call is between its first store write and markProcessed
ProcBusy == \E s \in Sources, m \in Messages : task[s][m] = "mark"

\* processMessage has returned to handleMessage or to scanGroupHistory, which
\* counts the message
ProcessingReturns(s, m) ==
    /\ task' = [task EXCEPT ![s][m] = "done"]
    /\ scan' = IF s = "scan" THEN [scan EXCEPT !.processedCount = @ + 1] ELSE scan

\* markProcessed(message.id)
markProcessed(m) == processed' = [processed EXCEPT ![m] = TRUE]

\* processMessage(savedMessage, ...) up to the return of the call of
\* sendImmediateAlert: c is what the classification gives, itemOk whether the
\* insert into extracted_items stores the item.  The calls run one at a time.
processMessage(s, m, c, itemOk) ==
    /\ task[s][m] = "process"
    /\ ~ProcBusy
    /\ handed' = [handed EXCEPT ![m] = @ + 1]
    /\ IF c.kind = "short"
       THEN /\ markProcessed(m)
            /\ mhist' = [mhist EXCEPT ![m] = [NoProc EXCEPT !.cls = c]]
            /\ ProcessingReturns(s, m)
            /\ UNCHANGED <<items, alerts, queueVars, swr, shist, blackoutTx, lastReq>>
       ELSE IF c.kind = "error"
       THEN /\ processed' = [processed EXCEPT ![m] = @ \/ MarkedInCatch]
            /\ mhist' = [mhist EXCEPT ![m] = [NoProc EXCEPT !.cls = c]]
            /\ ProcessingReturns(s, m)
            /\ UNCHANGED <<items, alerts, queueVars, swr, shist, blackoutTx, lastReq>>
       ELSE IF IsNoise(c)
       THEN /\ markProcessed(m)
            /\ mhist' = [mhist EXCEPT ![m] = [NoProc EXCEPT !.cls = c]]
            /\ ProcessingReturns(s, m)
            /\ UNCHANGED <<items, alerts, queueVars, swr, shist, blackoutTx, lastReq>>
       ELSE /\ items' = [items EXCEPT ![m] = IF itemOk THEN @ + 1 ELSE @]
            /\ alerts' = [alerts EXCEPT ![m] = IF NeedsAlert(c) THEN @ + 1 ELSE @]
            /\ IF NeedsAlert(c) /\ itemOk
               THEN /\ ImmediateAlert(userId)
                    /\ mhist' = [mhist EXCEPT ![m] =
                                   [cls |-> c, saved |-> itemOk, req |-> lastReq', tx |-> 0]]
               ELSE /\ mhist' = [mhist EXCEPT ![m] =
                                   [cls |-> c, saved |-> itemOk, req |-> NoReq, tx |-> 0]]
                    /\ UNCHANGED <<queueVars, swr, shist, blackoutTx, lastReq>>
            /\ task' = [task EXCEPT ![s][m] = "mark"]
            /\ UNCHANGED <<processed, scan>>
    /\ UNCHANGED <<timeVars, passVars, connVars, supVars, rows>>

\* The rest of processMessage, once sendImmediateAlert has returned:
\* markProcessed
processMessageEnd(s, m) ==
    /\ task[s][m] = "mark"
    /\ swr.pc = "idle"
    /\ markProcessed(m)
    /\ mhist' = [mhist EXCEPT ![m].tx = IF mhist[m].req.sending THEN shist.tx ELSE 0]
    /\ ProcessingReturns(s, m)
    /\ UNCHANGED <<rows, handed, items, alerts>>
    /\ UNCHANGED <<timeVars, delivVars, connVars, supVars>>

(***************************************************************************)
(* Delivery queue manager: specification                                   *)
(***************************************************************************)
\* Friday 17:55 and Saturday 00:30, Israel time
FridayEve == 5 * DAY + 17 * HOUR + 55 * MINUTE - IsraelOffset
SaturdayNight == 6 * DAY + 30 * MINUTE - IsraelOffset
StartTimes == {FridayEve, SaturdayNight}

InitDelivery ==
    /\ ticks = 0
    /\ serverTz \in ServerTimezones
    /\ hbWrite = FALSE
    /\ quietTx = {}
    /\ apass = AlertPassIdle
    /\ atab = [a \in 1..MaxAlerts |-> NoAlert]
    /\ fan = NoBatch
    /\ queue = [e \in EntryIds |-> NoRow]
    /\ qmeta = [e \in EntryIds |-> NoMeta]
    /\ notified = [e \in EntryIds |-> FALSE]
    /\ sends = [e \in EntryIds |-> 0]
    /\ pass = [p \in PassIds |-> PassIdle]
    /\ phist = [p \in PassIds |-> NoHist]
    /\ swr = SwrIdle
    /\ shist = NoSendHist
    /\ blackoutTx = FALSE
    /\ lastReq = NoReq

InitConnIdle ==
    /\ userId = "u1"
    /\ status = "disconnected"
    /\ session = [status |-> "disconnected", last_heartbeat |-> NULL,
                  qr_code |-> "null", error_message |-> "null"]
    /\ client = "none"
    /\ heartbeatInterval = FALSE
    /\ lastHeartbeat = NULL
    /\ reconnectAttempts = 0
    /\ isReconnecting = FALSE
    /\ rpc = RecoIdle
    /\ rhist = NoRecoHist
    /\ checks = 0

InitSupIdle ==
    /\ workers = NoWorker
    /\ wstate = [w \in WorkerIds |-> "unborn"]
    /\ starting = {}
    /\ stopping = [w \in WorkerIds |-> 0]
    /\ created = 0
    /\ isRunning = TRUE
    /\ stopAllOn = NoWorker
    /\ exited = FALSE
    /\ sreq = [status |-> "none", error |-> "", processing |-> 0, scans |-> 0,
               terminal |-> 0]
    /\ sproc = [c \in ScanCallers |-> "idle"]

InitIngIdle ==
    /\ rows = [m \in Messages |-> 0]
    /\ handed = [m \in Messages |-> 0]
    /\ task = [s \in Sources |-> [m \in Messages |-> "idle"]]
    /\ processed = [m \in Messages |-> FALSE]
    /\ items = [m \in Messages |-> 0]
    /\ alerts = [m \in Messages |-> 0]
    /\ mhist = [m \in Messages |-> NoProc]
    /\ scan = NoScan

InitWorkersIdle == InitConnIdle /\ InitSupIdle /\ InitIngIdle

\* Requests for alerts and digests around the start of the blackout window
InitSend == now \in StartTimes /\ InitDelivery /\ InitWorkersIdle

NextSend ==
    \/ \E u \in Users : sendImmediateAlert(u)
    \/ \E u \in Users, c \in BOOLEAN : sendDailyDigest(u, c)
    \/ \E o \in SendOutcomes : sendWithRetry(o)
    \/ \E d \in TickSteps : Tick(d)
    \/ TickToDue

SpecSend == InitSend /\ [][NextSend]_vars

\* The queue job draining the rows that were deferred during the blackout window
InitQueue ==
    now = SaturdayNight /\ InitDelivery /\ serverTz = IsraelOffset /\ InitWorkersIdle

DeferredAlert(u) == isShabbatOrHoliday(now) /\ sendImmediateAlert(u)

NextQueue ==
    \/ \E u \in Users : DeferredAlert(u)
    \/ \E p \in PassIds : processQueueStart(p)
    \/ \E p \in PassIds, e \in EntryIds : processQueueNext(p, e)
    \/ \E p \in PassIds, o \in SendOutcomes : processQueueSend(p, o)
    \/ TickToWindowEnd
    \/ TimePasses

SpecQueue == InitQueue /\ [][NextQueue]_vars

\* The scheduler keeps firing the queue job, every await of a running call
\* returns, and time passes
FairQueue ==
    /\ \A p \in PassIds : WF_vars(processQueueStart(p))
    /\ \A p \in PassIds : WF_vars(\E e \in EntryIds : processQueueNext(p, e))
    /\ \A p \in PassIds : WF_vars(\E o \in SendOutcomes : processQueueSend(p, o))
    /\ WF_vars(TickToWindowEnd)
    /\ WF_vars(TimePasses)

SpecQueueFair == InitQueue /\ [][NextQueue]_vars /\ FairQueue

\* Alerts requested during and after the blackout window, and the queue job:
\* immediate delivery, its retries, and one call of processQueue at a time.
\* An alert is requested only while the table of the model has room for the
\* row its delivery will write.
NextRequeue ==
    \/ \E u \in Users : FreeIds # {} /\ sendImmediateAlert(u)
    \/ \E o \in SendOutcomes : sendWithRetry(o)
    \/ processQueueStart("slow")
    \/ \E e \in EntryIds : processQueueNext("slow", e)
    \/ \E o \in SendOutcomes : processQueueSend("slow", o)
    \/ TickToWindowEnd
    \/ TimePasses

SpecRequeue == InitQueue /\ [][NextRequeue]_vars

\* The scheduler keeps firing the queue job, every await of a running call
\* returns, and time passes
FairRequeue ==
    /\ WF_vars(processQueueStart("slow"))
    /\ WF_vars(\E e \in EntryIds : processQueueNext("slow", e))
    /\ WF_vars(\E o \in SendOutcomes : processQueueSend("slow", o))
    /\ WF_vars(\E o \in SendOutcomes : sendWithRetry(o))
    /\ WF_vars(TickToWindowEnd)
    /\ WF_vars(TimePasses)

SpecRequeueFair == InitQueue /\ [][NextRequeue]_vars /\ FairRequeue

(***************************************************************************)
(* Connection worker: specifications                                       *)
(***************************************************************************)
\* The supervisor has registered the worker and called start(); the user asked
\* to connect
InitConn ==
    /\ now \in StartTimes
    /\ InitDelivery
    /\ serverTz = IsraelOffset
    /\ userId \in Users
    /\ status = "disconnected"
    /\ session = [status |-> "qr_required", last_heartbeat |-> now,
                  qr_code |-> "null", error_message |-> "null"]
    /\ client = "initializing"
    /\ heartbeatInterval = FALSE
    /\ lastHeartbeat = NULL
    /\ reconnectAttempts = 0
    /\ isReconnecting = FALSE
    /\ rpc = RecoIdle
    /\ rhist = NoRecoHist
    /\ checks = 0
    /\ InitSupIdle
    /\ InitIngIdle

\* The worker as the service runs it: the transport's events, the heartbeat
\* timer, the health check of the supervisor, the stale-session function of
\* the store
NextConn ==
    \/ OnQr
    \/ OnReady
    \/ OnAuthFailure
    \/ OnDisconnected
    \/ \E dbOk \in BOOLEAN : HeartbeatTick(dbOk)
    \/ mark_stale_sessions
    \/ healthCheck
    \/ MinutePasses

SpecConn == InitConn /\ [][NextConn]_vars

\* The timers keep firing and time passes
FairConn ==
    /\ WF_vars(healthCheck)
    /\ WF_vars(\E dbOk \in BOOLEAN : HeartbeatTick(dbOk))
    /\ WF_vars(mark_stale_sessions)
    /\ WF_vars(MinutePasses)

SpecConnFair == InitConn /\ [][NextConn]_vars /\ FairConn

\* The worker with a caller of its public reconnect()
NextReconnect ==
    \/ NextConn
    \/ CallReconnect
    \/ ReconnectGiveUp
    \/ ReconnectStop
    \/ \E o \in SendOutcomes : ReconnectStart(o)

SpecReconnect == InitConn /\ [][NextReconnect]_vars

(***************************************************************************)
(* Supervisor: specification                                               *)
(***************************************************************************)
\* After initialize() found no session to start
InitSup ==
    /\ now = FridayEve
    /\ InitDelivery
    /\ serverTz = IsraelOffset
    /\ InitConnIdle
    /\ InitSupIdle
    /\ InitIngIdle

NextSup ==
    \/ OnSessionQrRequired
    \/ OnSessionDeleted
    \/ \E w \in WorkerIds : StartResolves(w)
    \/ \E w \in WorkerIds : StartRejects(w)
    \/ \E w \in WorkerIds : StopWorkerEnd(w)
    \/ stopAll
    \/ StopAllEnd

SpecSup == InitSup /\ [][NextSup]_vars

\* Once the stop() that stopAll awaits has returned, stopAll and shutdown()
\* run to their end
SpecSupFair == InitSup /\ [][NextSup]_vars /\ WF_vars(StopAllEnd)

\* The scheduler's triggers and the alert sender, on an idle worker
InitSched ==
    /\ now = FridayEve + 5 * MINUTE - RETRY_DELAY_MS
    /\ InitDelivery
    /\ serverTz = IsraelOffset
    /\ InitConnIdle
    /\ InitSupIdle
    /\ InitIngIdle

NextSched ==
    \/ \E job \in {"digest", "calendar"} : SchedulerTrigger(job)
    \/ \E u \in Users, outcome \in {"ok", "fail", "throw"} : HandleUser(u, outcome)
    \/ \E u \in Users : createAlert(u)
    \/ processPendingAlerts
    \/ \E sent \in BOOLEAN : AlertSendSettles(sent)
    \/ \E d \in TickSteps : Tick(d)

SpecSched == InitSched /\ [][NextSched]_vars

(***************************************************************************)
(* Scan requests: specification                                            *)
(***************************************************************************)
\* The user of the requested group has no worker in the registry, or has one
\* whose transport is initializing; no request row yet
InitScan ==
    /\ now \in StartTimes
    /\ InitDelivery
    /\ serverTz = IsraelOffset
    /\ InitIngIdle
    /\ \/ InitConnIdle /\ InitSupIdle
       \/ /\ userId \in Users
          /\ status = "disconnected"
          /\ session = [status |-> "qr_required", last_heartbeat |-> now,
                        qr_code |-> "null", error_message |-> "null"]
          /\ client = "initializing"
          /\ heartbeatInterval = FALSE
          /\ lastHeartbeat = NULL
          /\ reconnectAttempts = 0
          /\ isReconnecting = FALSE
          /\ rpc = RecoIdle
          /\ rhist = NoRecoHist
          /\ checks = 0
          /\ workers = 1
          /\ wstate = [w \in WorkerIds |-> IF w = 1 THEN "live" ELSE "unborn"]
          /\ starting = {}
          /\ stopping = [w \in WorkerIds |-> 0]
          /\ created = 1
          /\ isRunning = TRUE
          /\ stopAllOn = NoWorker
          /\ exited = FALSE
          /\ sreq = [status |-> "none", error |-> "", processing |-> 0, scans |-> 0,
                     terminal |-> 0]
          /\ sproc = [c \in ScanCallers |-> "idle"]

\* The request row, its INSERT notification and the poll, with the events of
\* the worker's transport and the user's requests for a new pairing
NextScan ==
    \/ \E d \in BOOLEAN : OnScanRequestInsert(d)
    \/ \E c \in ScanCallers : ScanPollTick(c)
    \/ \E c \in ScanCallers : processScanRequest(c)
    \/ OnQr
    \/ OnReady
    \/ OnAuthFailure
    \/ OnDisconnected
    \/ RequestQr

SpecScan == InitScan /\ [][NextScan]_vars

\* The transport of a started worker that has no stored pairing issues its
\* pairing challenge
SpecScanFair == InitScan /\ [][NextScan]_vars /\ WF_vars(OnQr)

\* A registered worker, the health check and the shutdown of the supervisor
InitHealth ==
    /\ InitScan
    /\ workers = 1

NextHealth ==
    \/ Running /\ OnQr
    \/ Running /\ OnReady
    \/ Running /\ OnAuthFailure
    \/ Running /\ OnDisconnected
    \/ Running /\ \E dbOk \in BOOLEAN : HeartbeatTick(dbOk)
    \/ Running /\ mark_stale_sessions
    \/ Running /\ healthCheck
    \/ Running /\ MinutePasses
    \/ Running /\ CallReconnect
    \/ Running /\ ReconnectGiveUp
    \/ Running /\ ReconnectStop
    \/ Running /\ \E o \in SendOutcomes : ReconnectStart(o)
    \/ stopAll
    \/ StopAllEnd

SpecHealth == InitHealth /\ [][NextHealth]_vars

\* The worker with the updates of its heartbeat in flight
NextHeartbeat ==
    \/ OnQr
    \/ OnReady
    \/ OnAuthFailure
    \/ OnDisconnected
    \/ HeartbeatIssue
    \/ \E dbOk \in BOOLEAN : HeartbeatWriteSettles(dbOk)
    \/ MinutePasses

SpecHeartbeat == InitConn /\ [][NextHeartbeat]_vars

(***************************************************************************)
(* Ingestion: specification                                                *)
(***************************************************************************)
\* The worker of a user is connected, shortly before or inside the blackout
\* window; nothing of the group has been ingested
InitIngest ==
    /\ now \in StartTimes
    /\ InitDelivery
    /\ serverTz = IsraelOffset
    /\ userId \in Users
    /\ status = "connected"
    /\ session = [status |-> "connected", last_heartbeat |-> now,
                  qr_code |-> "null", error_message |-> "null"]
    /\ client = "ready"
    /\ heartbeatInterval = TRUE
    /\ lastHeartbeat = now
    /\ reconnectAttempts = 0
    /\ isReconnecting = FALSE
    /\ rpc = RecoIdle
    /\ rhist = NoRecoHist
    /\ checks = 0
    /\ InitSupIdle
    /\ InitIngIdle

NextIngest ==
    \/ \E s \in LiveEvents, m \in Messages : handleMessage(s, m)
    \/ scanGroupHistoryStart
    \/ \E m \in Messages : scanGroupHistory(m)
    \/ scanGroupHistoryReturn
    \/ \E s \in Sources, m \in Messages : InsertRawMessage(s, m)
    \/ \E s \in Sources, m \in Messages, c \in Classifications, itemOk \in BOOLEAN :
          processMessage(s, m, c, itemOk)
    \/ \E s \in Sources, m \in Messages : processMessageEnd(s, m)
    \/ \E o \in SendOutcomes : sendWithRetry(o)
    \/ TickToDue

SpecIngest == InitIngest /\ [][NextIngest]_vars

\* Every await of a running handler returns, the requested scans run, and
\* time passes
FairIngest ==
    /\ WF_vars(\E s \in LiveEvents, m \in Messages : handleMessage(s, m))
    /\ WF_vars(scanGroupHistoryStart)
    /\ WF_vars(\E m \in Messages : scanGroupHistory(m))
    /\ WF_vars(scanGroupHistoryReturn)
    /\ WF_vars(\E s \in Sources, m \in Messages : InsertRawMessage(s, m))
    /\ WF_vars(\E s \in Sources, m \in Messages, c \in Classifications, itemOk \in BOOLEAN :
                  processMessage(s, m, c, itemOk))
    /\ WF_vars(\E s \in Sources, m \in Messages : processMessageEnd(s, m))
    /\ WF_vars(\E o \in SendOutcomes : sendWithRetry(o))
    /\ WF_vars(TickToDue)

SpecIngestFair == InitIngest /\ [][NextIngest]_vars /\ FairIngest

(***************************************************************************)
(* Claims: delivery queue manager                                          *)
(***************************************************************************)
Terminal(e) == queue[e].status \in {"sent", "failed"}

C4_BlackoutDeferral ==
    /\ lastReq.blackout /\ lastReq.content
          => lastReq.queued = 1 /\ ~lastReq.sending
    /\ \A e \in EntryIds :
          qmeta[e].origin = "deferred"
             => /\ isShabbatOrHoliday(qmeta[e].createdAt)
                /\ qmeta[e].scheduledFor > WindowEnd(qmeta[e].createdAt)

\* C9: a row that failed MAX_RETRIES times is failed for good, with a
\* notification, and no row is sent more than MAX_RETRIES times.
C9_RetryCeiling ==
    \A e \in EntryIds :
        /\ sends[e] <= MAX_RETRIES
        /\ queue[e].retryCount >= MAX_RETRIES
              => queue[e].status = "failed" /\ notified[e]

\* C10: a call of processQueue that started outside the blackout window and
\* has returned made exactly one transport call for each row it selected whose
\* user has a phone and opt-in, none for any other row; the rows it selected
\* were pending and due when it started (all of them, up to 50); and it
\* returned the number of calls that succeeded.
C10_DrainsExactlyTheDueRows ==
    \A p \in PassIds :
        phist[p].ret # -1 /\ ~phist[p].blackout
           => /\ phist[p].sel \subseteq phist[p].due
              /\ Cardinality(phist[p].sel)
                    = Min(Cardinality(phist[p].due), QUEUE_BATCH_LIMIT)
              /\ \A e \in EntryIds :
                    phist[p].tx[e] =
                       IF e \in phist[p].sel /\ CanReceive(queue[e].user) THEN 1 ELSE 0
              /\ phist[p].ret = phist[p].ok

\* A call that selected two rows, one of them of a user who cannot receive,
\* sent the other and returned 1
C10_Witness ==
    \E p \in PassIds :
        /\ phist[p].ret = 1
        /\ Cardinality(phist[p].sel) = 2
        /\ \E e \in phist[p].sel : phist[p].tx[e] = 0

\* C11: once a row has status sent or failed, no later step changes any of its
\* fields, including when two calls of processQueue overlap and both selected
\* the row while it was pending.
C11_TerminalRowsNeverChange ==
    [][\A e \in EntryIds : Terminal(e) => queue'[e] = queue[e]]_vars


\* C12: a call of sendWithRetry calls the transport until the first success and
\* at most MAX_RETRIES times; having returned true it made one successful call,
\* the last one, and wrote exactly one sent journal row and no notification;
\* having returned false it made MAX_RETRIES calls, none successful, and wrote
\* exactly one queue row holding the message and exactly one notification.
C12_SendWithRetryOutcome ==
    /\ shist.tx <= MAX_RETRIES
    /\ shist.ret = "none" => shist.ok + shist.journal + shist.queued + shist.alerts = 0
    /\ shist.ret = "true"
          => /\ shist.tx \in 1 .. MAX_RETRIES /\ shist.ok = 1
             /\ shist.journal = 1 /\ shist.queued = 0 /\ shist.alerts = 0
             /\ queue[shist.row].status = "sent" /\ ~notified[shist.row]
    /\ shist.ret = "false"
          => /\ shist.tx = MAX_RETRIES /\ shist.ok = 0
             /\ shist.journal = 0 /\ shist.queued = 1 /\ shist.alerts = 1
             /\ qmeta[shist.row].origin = "exhausted" /\ notified[shist.row]

\* A call whose attempts all failed has returned
C12_Witness == shist.ret = "false" /\ shist.tx = MAX_RETRIES /\ notified[shist.row]

\* C13: the queue row written for a message whose immediate delivery
\* exhausted all attempts is eventually re-attempted by a call of processQueue.
C13_ExhaustedIsRetriedLater ==
    \A e \in EntryIds : (qmeta[e].origin = "exhausted") ~> (sends[e] > 0)

\* C14: processQueue never calls the transport for a row of a user who has no
\* phone or has not opted in, whatever the row's status and scheduled time:
\* no call has been made for such a row and none is about to be made.
C14_NoSendToOptedOut ==
    \A e \in EntryIds :
        queue[e].status # "none" /\ ~CanReceive(queue[e].user)
           => /\ sends[e] = 0
              /\ \A p \in PassIds : phist[p].tx[e] = 0 /\ ~(pass[p].pc = "send" /\ pass[p].cur = e)

\* Two overlapping calls selected the row of a user who has not opted in and
\* the row of a user who has; the first row was marked failed without a
\* transport call, the second was sent
C14_Witness ==
    \E e, f \in EntryIds :
        /\ ~CanReceive(queue[e].user) /\ queue[e].status = "failed" /\ sends[e] = 0
        /\ \A p \in PassIds : e \in phist[p].sel
        /\ CanReceive(queue[f].user) /\ sends[f] > 0

(***************************************************************************)
(* Claims: connection worker, supervisor, ingestion                        *)
(***************************************************************************)
\* C1: there is never more than one live worker (started and not stopped) for
\* the same user id.
C1_AtMostOneLiveWorker == Cardinality(LiveWorkers) <= 1

\* C2: an external message id of the group has at most one row, and is handed
\* to processMessage at most once, whatever the interleaving of the two live
\* handlers and the scan.
C2_PersistedAndHandedOnce ==
    \A m \in Messages :
        /\ rows[m] <= 1
        /\ handed[m] + Cardinality({s \in Sources : task[s][m] = "process"}) <= rows[m]

\* Both live handlers and the scan raced for one message: the scan found no
\* row, and lost the insert
C2_Witness ==
    \E m \in Messages :
        /\ task["scan"][m] = "rejected"
        /\ \E s \in LiveEvents : task[s][m] = "done"
        /\ \E s \in LiveEvents : task[s][m] = "rejected"
        /\ rows[m] = 1
        /\ handed[m] = 1

\* C5: no call of the outbound transport is made inside the blackout window.
C5_NoTransportInBlackout == ~blackoutTx

\* The session store has had no heartbeat of the connected worker for longer
\* than the stale threshold
HeartbeatStale ==
    /\ status = "connected"
    /\ session.last_heartbeat # NULL
    /\ now - session.last_heartbeat > UNSTABLE_THRESHOLD

\* C6: a connected worker whose heartbeats stopped arriving for longer than
\* the stale threshold, with no disconnect event, is eventually reconnected
\* by the health check (unless a disconnect event arrives or the heartbeats
\* resume).
C6_StaleHeartbeatLeadsToReconnect ==
    HeartbeatStale ~> (rpc.pc # "idle" \/ client = "closed" \/ ~HeartbeatStale)

C8_DisconnectedLeadsToReconnect ==
    (status = "disconnected" /\ client = "closed") ~> (rpc.pc # "idle")

\* C15: ingesting again an external message id that already has a row, by a
\* repeated live event or by another scan of the same history, changes
\* nothing: the row stays the one row, it is not handed to processMessage
\* again and its processed flag is not reset; and a scan that found every
\* message of the history already persisted returns 0.
C15_ReingestIsNoOp ==
    /\ [][\A m \in Messages :
             rows[m] = 1 /\ (\A s \in Sources : task[s][m] # "process")
                => /\ rows'[m] = 1
                   /\ handed'[m] = handed[m]
                   /\ processed[m] => processed'[m]]_vars
    /\ [](scan.ret # -1
             => /\ scan.ret <= Cardinality({m \in Messages : ~fromMe(m)} \ scan.known)
                /\ scan.ret <= Cardinality({m \in Messages : rows[m] = 1}))

\* The second scan of the same history has returned 0 after the first scan
\* persisted and processed the message, and a live event for the same message
\* was rejected meanwhile
C15_Witness ==
    /\ scan.run = 2 /\ scan.ret = 0
    /\ scan.known = {m \in Messages : ~fromMe(m)}
    /\ \A m \in scan.known : task["scan"][m] = "skipped" /\ rows[m] = 1 /\ handed[m] = 1
    /\ \E m \in scan.known, s \in LiveEvents : task[s][m] = "rejected"

\* C16: a message authored by the worker's own account is never persisted and
\* never handed to the classifier, on the live path and on the scan path: it
\* has no row, no handler is about to insert or process it, and processMessage
\* was never called for it.
C16_OwnMessagesDiscarded ==
    \A m \in Messages :
        fromMe(m)
           => /\ rows[m] = 0
              /\ handed[m] = 0
              /\ mhist[m] = NoProc
              /\ \A s \in Sources : task[s][m] \in {"idle", "ignored", "skippedFromMe"}

\* The transport announced the account's own message, and a scan met it in
\* the history; both dropped it
C16_Witness ==
    \E m \in Messages :
        /\ fromMe(m)
        /\ task["message_create"][m] = "ignored"
        /\ task["scan"][m] = "skippedFromMe"
        /\ scan.ret # -1

\* C17: every persisted inbound message is eventually processed: its
\* processed flag eventually becomes true, also when its classification
\* failed.
C17_PersistedIsEventuallyProcessed ==
    \A m \in Messages : (rows[m] = 1) ~> processed[m]

\* C18: when the classifier call failed for a message, processMessage left the
\* message's processed flag false and created no extracted item and no alert
\* and requested no send.
C18_ClassifierFailureLeavesNothing ==
    \A m \in Messages :
        mhist[m].cls.kind = "error"
           => /\ ~processed[m]
              /\ items[m] = 0
              /\ alerts[m] = 0
              /\ mhist[m].req = NoReq
              /\ mhist[m].tx = 0

\* processMessage has returned to the live handler after the classifier failed
C18_Witness ==
    \E m \in Messages, s \in LiveEvents :
        /\ mhist[m].cls.kind = "error"
        /\ task[s][m] = "done"
        /\ rows[m] = 1 /\ handed[m] = 1

\* C19: when the insert of the extracted item failed while a
\* message was processed, the message is not marked processed.
C19_StoreFailureLeavesUnprocessed ==
    \A m \in Messages :
        mhist[m].cls.kind = "verdict" /\ ~IsNoise(mhist[m].cls) /\ ~mhist[m].saved
           => ~processed[m]

\* C20: when the verdict of a message has the immediate-alert flag
\* and urgency of at least 6, an alert record is created and a transport send
\* is attempted in the same call of processMessage, before the message is
\* marked processed; otherwise no alert is created and no immediate send is
\* requested.
C20_UrgentVerdictAlertsAndSends ==
    \A m \in Messages :
        mhist[m].cls.kind = "verdict"
           => IF mhist[m].cls.send_immediate_alert /\ mhist[m].cls.urgency >= 6
              THEN /\ alerts[m] = 1
                   /\ processed[m] => mhist[m].tx >= 1
              ELSE /\ alerts[m] = 0
                   /\ mhist[m].req = NoReq
                   /\ mhist[m].tx = 0


\* C21: from status connected, the handler of the transport's 'disconnected'
\* event always leaves the worker in status disconnected, with the session row
\* saying disconnected and the heartbeat timer cleared; it never leaves it in
\* qr_required or unstable.
C21_DisconnectEventFromConnected ==
    [][status = "connected" /\ client = "ready" /\ client' = "closed"
          => /\ status' = "disconnected"
             /\ session'.status = "disconnected"
             /\ ~heartbeatInterval']_vars

\* The connected worker, with its heartbeat written, has handled a disconnect
\* event
C21_Witness ==
    /\ client = "closed"
    /\ status = "disconnected"
    /\ lastHeartbeat # NULL
    /\ ~heartbeatInterval


\* C22: a call of the worker's start() moves its status to connecting, and the
\* status stays connecting while the transport is initializing, until the
\* transport emits a pairing challenge, ready, or a failure.
C22_StartMovesToConnecting ==
    [][client' = "initializing" /\ client # "initializing"
          => status' = "connecting"]_vars


C26_ScanRequestHandledOnce ==
    /\ sreq.scans <= 1
    /\ sreq.terminal <= 1
    /\ sreq.processing <= 1


\* C27: an execution of a scan request that finds no worker registered for
\* the user of the group, or a worker that is not connected, writes failed
\* with a non-empty error text and does not invoke the history scan; a request
\* of a user without a worker is never scanned and never completed.
C27_NotConnectedFailsWithoutScan ==
    /\ [](workers = NoWorker => sreq.scans = 0 /\ sreq.status # "completed")
    /\ [][\A c \in ScanCallers :
             /\ sproc[c] = "lookup" /\ sproc'[c] # "lookup"
             /\ workers = NoWorker \/ status # "connected"
             => /\ sproc'[c] = "idle"
                /\ sreq'.status = "failed"
                /\ sreq'.error # ""
                /\ sreq'.terminal = sreq.terminal + 1
                /\ sreq'.scans = sreq.scans]_vars

\* The request of a user whose worker waits for its pairing was failed, with
\* the error text, before any scan
C27_Witness ==
    /\ workers # NoWorker
    /\ status = "qr_required"
    /\ sreq.status = "failed"
    /\ sreq.error = "WhatsApp not connected"
    /\ sreq.scans = 0
    /\ sreq.processing = 1


\* C28: when the start() of a worker rejects, startWorker deletes the user id
\* from the registry and returns; a later startWorker for the user finds the
\* registry empty, constructs a new worker, registers it and starts it.
C28_FailedStartUnregisters ==
    [][/\ \A w \in WorkerIds :
             wstate[w] = "starting" /\ wstate'[w] = "failed"
                => w \notin starting' /\ workers' = NoWorker
       /\ created' # created
             => /\ workers = NoWorker
                /\ created' = created + 1
                /\ workers' = created'
                /\ wstate[workers'] = "unborn"
                /\ wstate'[workers'] = "starting"
                /\ workers' \in starting']_vars

\* The start of a worker failed, and a worker constructed later for the same
\* user is registered
C28_Witness ==
    \E w \in WorkerIds :
        /\ wstate[w] = "failed"
        /\ workers # NoWorker
        /\ workers > w
        /\ wstate[workers] \in {"starting", "live"}


\* C29: when a call of stopWorker returns, the user id is not in the registry;
\* and stopWorker for a user id that is not in the registry returns at once:
\* it stops nothing, awaits nothing and leaves the registry as it is.
C29_StopWorkerUnregisters ==
    [][/\ \A w \in WorkerIds :
             stopping'[w] < stopping[w] => workers' = NoWorker /\ wstate'[w] # "live"
       /\ workers = NoWorker
             => \A w \in WorkerIds : stopping'[w] <= stopping[w]
       /\ workers = NoWorker /\ stopAllOn = NoWorker /\ stopping = [w \in WorkerIds |-> 0]
             => /\ stopping' = stopping
                /\ \A w \in WorkerIds : wstate'[w] = "stopped" => wstate[w] = "stopped"
                /\ workers' # NoWorker => created' # created]_vars

\* A stopWorker call of the DELETE notification has returned for a worker,
\* no call is pending, and the registry is empty
C29_Witness ==
    \E w \in WorkerIds :
        /\ wstate[w] = "stopped"
        /\ stopping[w] = 0
        /\ workers = NoWorker
        /\ isRunning


\* C30: a call of stopAll always returns, with no worker left in the registry,
\* also when the close of a worker's transport raises an error or never
\* completes.
C30_StopAllCompletes == ~isRunning ~> (exited /\ workers = NoWorker)


\* C31: when the row of a user whose worker ended in manual_reauth_required is
\* set to qr_required by a request for a new pairing, a worker is started for
\* the user and issues a new pairing challenge.
C31_RepairingRequestLeadsToChallenge ==
    (status = "manual_reauth_required" /\ session.status = "qr_required")
        ~> (client = "qr")


C33_NoAlertInQuietHours == quietTx = {}


C36_QrCodeOnlyWhileQrRequired ==
    session.qr_code # "null" => session.status = "qr_required"

\* C37: once the worker has left connected and no update of its is in flight,
\* the row does not say connected
C37_RowNotConnectedAfterLeaving ==
    (~hbWrite /\ status # "connected") => session.status # "connected"

\* C38: the retry count of a queue entry never decreases, and every failed
\* delivery attempt of processQueue raises it by exactly one; after a failed
\* attempt that is not the last, the entry is pending again and scheduled
\* RETRY_DELAY_MS times the new count after the attempt
C38_RetryCountGrowsByOne ==
    [][\A e \in EntryIds :
          /\ queue'[e].retryCount >= queue[e].retryCount
          /\ (sends'[e] # sends[e] /\ queue'[e].status # "sent") =>
                /\ queue'[e].retryCount = queue[e].retryCount + 1
                /\ queue'[e].status = "pending" =>
                      /\ queue'[e].scheduledFor = now + RETRY_DELAY_MS * queue'[e].retryCount
                      /\ queue'[e].scheduledFor > now]_vars

\* C39: no delivery of processQueue succeeds for a queue entry that an
\* earlier delivery already made sent
C39_NoSecondSuccessfulSend ==
    [][\A e \in EntryIds :
          (sends'[e] # sends[e] /\ queue'[e].status = "sent") =>
              queue[e].status # "sent"]_vars

\* C40: once stopAll has been invoked no worker is constructed, registered or
\* started
C40_NoWorkerStartedAfterStopAll ==
    [][~isRunning =>
          /\ created' = created
          /\ workers' \in {workers, NoWorker}
          /\ starting' \subseteq starting]_vars
====
